---- MODULE Spec2Model ----
(***************************************************************************)
(* CyberShield AI: event ingestion, correlation and live notification.     *)
(*                                                                         *)
(* The repository holds two server programs over the same design: the      *)
(* modular TypeScript server (server/storage.ts, server/honeypot/          *)
(* services.ts, the routes file) and the single-file deployment            *)
(* (cybershield-complete.js).  impl says which of the two is running; it   *)
(* is chosen at start-up and never changes.                                *)
(*                                                                         *)
(* Every request handler and timer callback is an async function.  The     *)
(* code between two awaits runs to completion on the event loop, so each   *)
(* action below is one such stretch and proc[p].pc names the await at      *)
(* which the execution is suspended.  Any suspended execution may be the   *)
(* next to resume.                                                         *)
(*                                                                         *)
(* confidence values are integers in thousandths (0.85 is 850, 85.0 is     *)
(* 85000), so that the two scales found in the code stay distinct.         *)
(*                                                                         *)
(* Spec runs the analysis routes, the honeypot generators and the         *)
(* mark-read route with the subscribers.  SpecAlerts runs the alert        *)
(* routes on a store that earlier attacks have filled, SpecNotifier the    *)
(* stats timer beside one handler, SpecList the list routes with a clock,  *)
(* SpecStore the honeypot log store called directly, SpecLive the          *)
(* generators under fairness, SpecServing a server that handles request    *)
(* after request, SpecManager the calls of start() and stop(), SpecClient  *)
(* the dashboard's useWebSocket hook.                                      *)
(***************************************************************************)
EXTENDS Integers, Sequences, FiniteSets, TLC

\* ------------------------------------------------------------------ bounds
MaxProcs == 2
MaxClients == 2

Procs == 1..MaxProcs
Clients == 1..MaxClients
NoClient == 0
NoId == 0

\* ------------------------------------------------- constants of the program
InitActiveThreats == 7
InitPhishingBlocked == 142
InitDeepfakesDetected == 23
InitHoneypotHitsModular == 89
InitHoneypotHitsSingle == 1847

VARIABLES
    impl,               \* "modular" | "single": the server program that runs
    systemStats,        \* MemStorage.systemStats
    threats,            \* MemStorage.threats, in insertion order
    phishingAnalyses,   \* MemStorage.phishingAnalyses
    deepfakeAnalyses,   \* MemStorage.deepfakeAnalyses
    honeypotLogs,       \* MemStorage.honeypotLogs
    alerts,             \* MemStorage.alerts
    currentThreatId,
    currentPhishingId,
    currentDeepfakeId,
    currentHoneypotId,
    currentAlertId,
    proc,               \* the executions of handlers and timer callbacks
    wsClients,          \* the Set of connected sockets, in insertion order
    readyState,         \* readyState of each socket
    sent,               \* history: every call of broadcast, in call order
    emails,             \* history: every call of sendAttackAlert
    inbox,              \* what each socket was sent, in the order of the sends
    statsTimer,         \* the setInterval that publishes stats_update
    now,                \* the clock read by new Date(), in milliseconds
    listed,             \* the body of the last answer of a list route
    manager,            \* HoneypotManager: isRunning, intervals, and its calls
    hook                \* the dashboard's useWebSocket hook and its sockets

idVars == <<currentThreatId, currentPhishingId, currentDeepfakeId,
            currentHoneypotId, currentAlertId>>
recVars == <<threats, phishingAnalyses, deepfakeAnalyses, honeypotLogs, alerts>>
wsVars == <<wsClients, readyState>>
outVars == <<sent, inbox>>
envVars == <<statsTimer, now, listed, manager, hook>>
vars == <<impl, systemStats, recVars, idVars, proc, wsVars, outVars, emails,
          envVars>>

\* -------------------------------------------------------------- MemStorage
InitHoneypotHits(i) ==
    IF i = "modular" THEN InitHoneypotHitsModular ELSE InitHoneypotHitsSingle

InitStats(i) ==
    [activeThreats |-> InitActiveThreats,
     phishingBlocked |-> InitPhishingBlocked,
     deepfakesDetected |-> InitDeepfakesDetected,
     honeypotHits |-> InitHoneypotHits(i)]

\* no SystemStats held
NoStats == [activeThreats |-> 0, phishingBlocked |-> 0,
            deepfakesDetected |-> 0, honeypotHits |-> 0]

\* updateSystemStats(stats): { ...this.systemStats, ...stats }
MergeStats(old, patch) ==
    [k \in DOMAIN old |-> IF k \in DOMAIN patch THEN patch[k] ELSE old[k]]

UpdateSystemStats(patch) == systemStats' = MergeStats(systemStats, patch)

\* createThreat that reads the counter without advancing it
CreateThreatSameId(p, type, severity, analysisId) ==
    /\ threats' = Append(threats,
            [id |-> currentThreatId, type |-> type, severity |-> severity,
             analysisId |-> analysisId, status |-> "active", by |-> p,
             detectedAt |-> now])
    /\ currentThreatId' = currentThreatId

CreateThreat(p, type, severity, analysisId) ==
    /\ threats' = Append(threats,
            [id |-> currentThreatId, type |-> type, severity |-> severity,
             analysisId |-> analysisId, status |-> "active", by |-> p,
             detectedAt |-> now])
    /\ currentThreatId' = currentThreatId + 1

CreatePhishingAnalysis(p, score) ==
    /\ phishingAnalyses' = Append(phishingAnalyses,
            [id |-> currentPhishingId, score |-> score, by |-> p,
             analyzedAt |-> now])
    /\ currentPhishingId' = currentPhishingId + 1

CreateDeepfakeAnalysis(p, isDeepfake, confidence) ==
    /\ deepfakeAnalyses' = Append(deepfakeAnalyses,
            [id |-> currentDeepfakeId, isDeepfake |-> isDeepfake,
             confidence |-> confidence, by |-> p, analyzedAt |-> now])
    /\ currentDeepfakeId' = currentDeepfakeId + 1

\* v || null
OrNull(v) == IF v = "" THEN "null" ELSE v

\* the payload of the record made by createHoneypotLog.  modular:
\* payload: insertLog.payload || null; single file: { id, ...log }
StoredPayload(i, payload) == IF i = "modular" THEN OrNull(payload) ELSE payload

CreateHoneypotLog(p, service, severity, payload, location) ==
    /\ honeypotLogs' = Append(honeypotLogs,
            [id |-> currentHoneypotId, service |-> service,
             severity |-> severity, payload |-> StoredPayload(impl, payload),
             location |-> location, by |-> p, detectedAt |-> now])
    /\ currentHoneypotId' = currentHoneypotId + 1

\* createAlert whose metadata names the threat after the one it was given
CreateAlertAhead(p, severity, category, threatId, analysisId) ==
    /\ alerts' = Append(alerts,
            [id |-> currentAlertId, severity |-> severity,
             category |-> category, isRead |-> FALSE,
             threatId |-> IF threatId = NoId THEN NoId ELSE threatId + 1,
             analysisId |-> analysisId, by |-> p, createdAt |-> now])
    /\ currentAlertId' = currentAlertId + 1

CreateAlert(p, severity, category, threatId, analysisId) ==
    /\ alerts' = Append(alerts,
            [id |-> currentAlertId, severity |-> severity,
             category |-> category, isRead |-> FALSE,
             threatId |-> threatId, analysisId |-> analysisId, by |-> p,
             createdAt |-> now])
    /\ currentAlertId' = currentAlertId + 1

\* markAlertAsRead that flips the flag instead of setting it
MarkAlertAsReadFlip(id) ==
    alerts' = [i \in DOMAIN alerts |->
                  IF alerts[i].id = id
                  THEN [alerts[i] EXCEPT !.isRead = ~alerts[i].isRead]
                  ELSE alerts[i]]

\* markAlertAsRead(id): const alert = this.alerts.get(id); if (alert) ...
MarkAlertAsRead(id) ==
    alerts' = [i \in DOMAIN alerts |->
                  IF alerts[i].id = id
                  THEN [alerts[i] EXCEPT !.isRead = TRUE]
                  ELSE alerts[i]]

\* ---------------------------------------------------------------- Notifier
InSet(c) == \E i \in DOMAIN wsClients : wsClients[i] = c
Pos(c) == CHOOSE i \in DOMAIN wsClients : wsClients[i] = c
Without(s, c) == SelectSeq(s, LAMBDA x : x # c)

\* OpenClients without its test of readyState
AllClients == {c \in Clients : InSet(c)}

\* the sockets on which broadcast calls send: client.readyState === OPEN
OpenClients == {c \in Clients : InSet(c) /\ readyState[c] = "OPEN"}

\* forEach visits the Set in insertion order; f is the first socket whose
\* send throws (NoClient when none does): the exception leaves forEach, so
\* the sockets after f are not visited.
Delivered(f) ==
    IF f = NoClient THEN OpenClients
    ELSE {c \in OpenClients : Pos(c) < Pos(f)}

\* a send that puts the message ahead of those already handed over
SendFirst(box, n) == <<n>> \o box

\* a send that hands the message over twice
SendTwice(box, n) == box \o <<n, n>>

\* client.send(message) hands the message to the socket, which keeps the
\* order of its sends; a message is named by its position in sent
SendTo(box, n) == Append(box, n)

\* function broadcast(data): one synchronous pass over wsClients
BroadcastMessage(msg, f) ==
    /\ sent' = Append(sent,
          [type |-> msg.type, by |-> msg.by, stats |-> msg.stats,
           statsApplied |-> msg.statsApplied,
           open |-> OpenClients, delivered |-> Delivered(f), failed |-> f])
    /\ inbox' = [c \in Clients |->
                    IF c \in Delivered(f)
                    THEN SendTo(inbox[c], Len(sent) + 1)
                    ELSE inbox[c]]

\* broadcast called by the execution p of a handler
Broadcast(p, type, f) ==
    BroadcastMessage([type |-> type, by |-> p, stats |-> NoStats,
                      statsApplied |-> proc[p].updated], f)

\* wss.on('connection'): wsClients.add(ws).  Sockets are numbered in the
\* order in which they connect.
Connect(c) ==
    /\ readyState[c] = "NONE"
    /\ \A d \in Clients : d < c => readyState[d] # "NONE"
    /\ readyState' = [readyState EXCEPT ![c] = "OPEN"]
    /\ wsClients' = Append(wsClients, c)
    /\ UNCHANGED <<impl, envVars, systemStats, recVars, idVars, proc, outVars, emails>>

\* the transport goes away; the 'close' event is not yet dispatched
TransportClose(c) ==
    /\ readyState[c] = "OPEN"
    /\ readyState' = [readyState EXCEPT ![c] = "CLOSING"]
    /\ UNCHANGED <<impl, envVars, systemStats, recVars, idVars, proc, wsClients, outVars, emails>>

\* ws.on('close'): wsClients.delete(ws)
OnClose(c) ==
    /\ readyState[c] = "CLOSING"
    /\ readyState' = [readyState EXCEPT ![c] = "CLOSED"]
    /\ wsClients' = Without(wsClients, c)
    /\ UNCHANGED <<impl, envVars, systemStats, recVars, idVars, proc, outVars, emails>>

\* ws.on('error'): clients.delete(ws)  (single-file program only)
OnError(c) ==
    /\ impl = "single"
    /\ readyState[c] = "OPEN"
    /\ readyState' = [readyState EXCEPT ![c] = "CLOSING"]
    /\ wsClients' = Without(wsClients, c)
    /\ UNCHANGED <<impl, envVars, systemStats, recVars, idVars, proc, outVars, emails>>

\* ------------------------------------------------------------- executions

IdleProc ==
    [kind |-> "idle", pc |-> "idle", res |-> "none",
     content |-> "none",
     score |-> 0, isDeepfake |-> FALSE, confidence |-> 0,
     service |-> "none", severity |-> "none", payload |-> "none",
     location |-> "none",
     mailed |-> "none",          \* what sendAttackAlert came back with
     arg |-> NoId,
     stats |-> NoStats,          \* const stats = await storage.getSystemStats()
     analysisId |-> NoId, threatId |-> NoId, threatSeverity |-> "none",
     alertId |-> NoId, logId |-> NoId,
     updated |-> FALSE]          \* history: its updateSystemStats has run

\* HoneypotManager once the server has called honeypotManager.start():
\* isRunning is true and intervals holds one setInterval per service; calls
\* is the history of the calls of start() and stop() made since
ServiceTimers == 3
StartedManager ==
    [isRunning |-> TRUE, intervals |-> ServiceTimers, calls |-> <<>>]

\* useWebSocket before the component that uses it is mounted: ws is the
\* readyState of wsRef.current, timers the number of pending reconnect
\* timeouts, isConnected the hook's state; opened counts the calls of
\* new WebSocket, and openedAtCleanup remembers opened when the cleanup ran
NoHook ==
    [mounted |-> "never", ws |-> "none", timers |-> 0, isConnected |-> FALSE,
     opened |-> 0, openedAtCleanup |-> 0]

\* the stats timer between two ticks, and a list route not yet asked
ArmedTimer == [pc |-> "armed", stats |-> NoStats, ticks |-> 0]
NoList == [of |-> "none", rows |-> <<>>]

SetProc(p, r) == proc' = [proc EXCEPT ![p] = r]

\* executions are numbered in the order in which they start
CanStart(p) ==
    /\ proc[p].kind = "idle"
    /\ \A q \in Procs : q < p => proc[q].kind # "idle"

\* the execution has returned: its locals are gone
Finish(r, res) == [r EXCEPT !.pc = "done", !.res = res, !.stats = NoStats]

Init ==
    /\ impl \in {"modular", "single"}
    /\ systemStats = InitStats(impl)
    /\ threats = <<>>
    /\ phishingAnalyses = <<>>
    /\ deepfakeAnalyses = <<>>
    /\ honeypotLogs = <<>>
    /\ alerts = <<>>
    /\ currentThreatId = 1
    /\ currentPhishingId = 1
    /\ currentDeepfakeId = 1
    /\ currentHoneypotId = 1
    /\ currentAlertId = 1
    /\ proc = [p \in Procs |-> IdleProc]
    /\ wsClients = <<>>
    /\ readyState = [c \in Clients |-> "NONE"]
    /\ sent = <<>>
    /\ emails = {}
    /\ inbox = [c \in Clients |-> <<>>]
    /\ statsTimer = ArmedTimer
    /\ now = 0
    /\ listed = NoList
    /\ manager = StartedManager
    /\ hook = NoHook

\* ------------------------------------------------ severity/threshold policy
\* the threshold of PhishingEscalates set five points too low
PhishingEscalatesLow(i, score) == score >= 65

\* if (result.score >= 70)            routes, POST /api/analyze/email
\* if (result.score > 70)             single file, POST /api/phishing/analyze
PhishingEscalates(i, score) ==
    IF i = "modular" THEN score >= 70 ELSE score > 70

\* severity: result.score >= 90 ? 'critical' : 'high'      (single file: > 90)
PhishingSeverity(i, score) ==
    IF i = "modular"
    THEN (IF score >= 90 THEN "critical" ELSE "high")
    ELSE (IF score > 90 THEN "critical" ELSE "high")

\* the scores analyzeEmail is made to return here: sums of 15, 20, 25, 10 and
\* 30 capped at 100, on both sides of each threshold
Scores == {65, 70, 90, 95}

\* req.body.content: a non-empty string, an empty or missing one, a non-string
Contents == {"text", "empty", "nonstring"}

\* if (!content || typeof content !== 'string')   (single file: if (!content))
ContentRejected(i, content) ==
    IF i = "modular" THEN content # "text" ELSE content = "empty"

\* ----------------------------------------- POST /api/analyze/email handler
\* validation, then phishingDetector.analyzeEmail(content), which has no
\* await inside and throws on a content that has no toLowerCase
PhishingSubmit(p) ==
    /\ CanStart(p)
    /\ \E content \in Contents, score \in Scores :
          IF ContentRejected(impl, content)
          THEN SetProc(p, Finish([proc[p] EXCEPT !.kind = "phishing",
                                                 !.content = content], "400"))
          ELSE IF content = "nonstring"
          THEN SetProc(p, Finish([proc[p] EXCEPT !.kind = "phishing",
                                                 !.content = content], "500"))
          ELSE SetProc(p, [proc[p] EXCEPT !.kind = "phishing",
                                          !.content = content,
                                          !.pc = "analyzed", !.score = score])
    /\ UNCHANGED <<impl, envVars, systemStats, recVars, idVars, wsVars, outVars, emails>>

\* const analysis = await storage.createPhishingAnalysis({...})
PhishingStore(p) ==
    /\ proc[p].kind = "phishing" /\ proc[p].pc = "analyzed"
    /\ CreatePhishingAnalysis(p, proc[p].score)
    /\ SetProc(p, [proc[p] EXCEPT !.pc = "stored",
                                  !.analysisId = currentPhishingId])
    /\ UNCHANGED <<impl, envVars, systemStats, threats, deepfakeAnalyses, honeypotLogs,
                   alerts, currentThreatId, currentDeepfakeId,
                   currentHoneypotId, currentAlertId, wsVars, outVars, emails>>

\* if (escalates) { const threat = await storage.createThreat({...}) ... }
\* else res.json(result)
PhishingDecide(p) ==
    /\ proc[p].kind = "phishing" /\ proc[p].pc = "stored"
    /\ IF PhishingEscalates(impl, proc[p].score)
       THEN /\ CreateThreat(p, "phishing",
                            PhishingSeverity(impl, proc[p].score),
                            proc[p].analysisId)
            /\ SetProc(p, [proc[p] EXCEPT
                    !.pc = "threat", !.threatId = currentThreatId,
                    !.threatSeverity = PhishingSeverity(impl, proc[p].score)])
       ELSE /\ SetProc(p, Finish(proc[p], "200"))
            /\ UNCHANGED <<threats, currentThreatId>>
    /\ UNCHANGED <<impl, envVars, systemStats, phishingAnalyses, deepfakeAnalyses,
                   honeypotLogs, alerts, currentPhishingId, currentDeepfakeId,
                   currentHoneypotId, currentAlertId, wsVars, outVars, emails>>

\* modular: const alert = await storage.createAlert({severity: threat.severity,
\* category: 'email', ...});  single file: res.json({analysis, result})
PhishingAlert(p) ==
    /\ proc[p].kind = "phishing" /\ proc[p].pc = "threat"
    /\ IF impl = "modular"
       THEN /\ CreateAlert(p, proc[p].threatSeverity, "email",
                           proc[p].threatId, proc[p].analysisId)
            /\ SetProc(p, [proc[p] EXCEPT !.pc = "alert",
                                          !.alertId = currentAlertId])
       ELSE /\ SetProc(p, Finish(proc[p], "200"))
            /\ UNCHANGED <<alerts, currentAlertId>>
    /\ UNCHANGED <<impl, envVars, systemStats, threats, phishingAnalyses,
                   deepfakeAnalyses, honeypotLogs, currentThreatId,
                   currentPhishingId, currentDeepfakeId, currentHoneypotId,
                   wsVars, outVars, emails>>

\* broadcast({type: 'new_alert', alert, threat});
\* const stats = await storage.getSystemStats();
\* a send that throws lands in the handler's catch: res.status(500)
PhishingBroadcast(p) ==
    /\ proc[p].kind = "phishing" /\ proc[p].pc = "alert"
    /\ \E f \in OpenClients \cup {NoClient} :
          /\ Broadcast(p, "new_alert", f)
          /\ IF f = NoClient
             THEN SetProc(p, [proc[p] EXCEPT !.pc = "statsRead",
                                             !.stats = systemStats])
             ELSE SetProc(p, Finish(proc[p], "500"))
    /\ UNCHANGED <<impl, envVars, systemStats, recVars, idVars, wsVars, emails>>

\* await storage.updateSystemStats({phishingBlocked: stats.phishingBlocked + 1,
\*                                  activeThreats: stats.activeThreats + 1})
PhishingUpdateStats(p) ==
    /\ proc[p].kind = "phishing" /\ proc[p].pc = "statsRead"
    /\ UpdateSystemStats(
          [phishingBlocked |-> proc[p].stats.phishingBlocked + 1,
           activeThreats |-> proc[p].stats.activeThreats + 1])
    /\ SetProc(p, [proc[p] EXCEPT !.pc = "statsWritten", !.updated = TRUE,
                                  !.stats = NoStats])
    /\ UNCHANGED <<impl, envVars, recVars, idVars, wsVars, outVars, emails>>

\* res.json(result)
PhishingRespond(p) ==
    /\ proc[p].kind = "phishing" /\ proc[p].pc = "statsWritten"
    /\ SetProc(p, Finish(proc[p], "200"))
    /\ UNCHANGED <<impl, envVars, systemStats, recVars, idVars, wsVars, outVars, emails>>

\* if (result.isDeepfake && result.confidence >= 80)   routes, POST
\*                                                     /api/analyze/deepfake
\* if (result.isDeepfake)               single file, POST /api/deepfake/analyze
DeepfakeEscalates(i, isDeepfake, confidence) ==
    IF i = "modular" THEN isDeepfake /\ confidence >= 80000 ELSE isDeepfake

\* severity: result.confidence >= 95 ? 'critical' : 'high'
\* single file: result.confidence > 0.8 ? 'high' : 'medium'
DeepfakeSeverity(i, confidence) ==
    IF i = "modular"
    THEN (IF confidence >= 95000 THEN "critical" ELSE "high")
    ELSE (IF confidence > 800 THEN "high" ELSE "medium")

\* DeepfakeDetector.analyzeImage / analyzeVideo.  modular: confidence is
\* 70 + random * 25 (75 + random * 20 for a video), raised to at least 85
\* (88) for a positive, rounded to one decimal.  single file: random * 0.3 +
\* (isDeepfake ? 0.7 : 0.1).
DetectorResults(i) ==
    IF i = "modular"
    THEN {<<FALSE, 70000>>, <<FALSE, 95000>>,
          <<TRUE, 85000>>, <<TRUE, 95000>>}
    ELSE {<<FALSE, 100>>, <<TRUE, 700>>, <<TRUE, 850>>, <<TRUE, 970>>}

\* ---------------------------------------- POST /api/analyze/deepfake handler
\* if (!req.file) return 400; an unsupported mimetype returns 400 as well;
\* result = await deepfakeDetector.analyzeImage(buffer, originalname)
DeepfakeSubmit(p) ==
    /\ CanStart(p)
    /\ \E fileOk \in BOOLEAN, r \in DetectorResults(impl) :
          IF ~fileOk
          THEN SetProc(p, Finish([proc[p] EXCEPT !.kind = "deepfake"], "400"))
          ELSE SetProc(p, [proc[p] EXCEPT !.kind = "deepfake",
                              !.pc = "analyzed",
                              !.isDeepfake = r[1], !.confidence = r[2]])
    /\ UNCHANGED <<impl, envVars, systemStats, recVars, idVars, wsVars, outVars, emails>>

\* const analysis = await storage.createDeepfakeAnalysis({...})
DeepfakeStore(p) ==
    /\ proc[p].kind = "deepfake" /\ proc[p].pc = "analyzed"
    /\ CreateDeepfakeAnalysis(p, proc[p].isDeepfake, proc[p].confidence)
    /\ SetProc(p, [proc[p] EXCEPT !.pc = "stored",
                                  !.analysisId = currentDeepfakeId])
    /\ UNCHANGED <<impl, envVars, systemStats, threats, phishingAnalyses, honeypotLogs,
                   alerts, currentThreatId, currentPhishingId,
                   currentHoneypotId, currentAlertId, wsVars, outVars, emails>>

\* if (escalates) { const threat = await storage.createThreat({...}) ... }
\* else res.json(result)
DeepfakeDecide(p) ==
    /\ proc[p].kind = "deepfake" /\ proc[p].pc = "stored"
    /\ IF DeepfakeEscalates(impl, proc[p].isDeepfake, proc[p].confidence)
       THEN /\ CreateThreat(p, "deepfake",
                            DeepfakeSeverity(impl, proc[p].confidence),
                            proc[p].analysisId)
            /\ SetProc(p, [proc[p] EXCEPT
                    !.pc = "threat", !.threatId = currentThreatId,
                    !.threatSeverity =
                        DeepfakeSeverity(impl, proc[p].confidence)])
       ELSE /\ SetProc(p, Finish(proc[p], "200"))
            /\ UNCHANGED <<threats, currentThreatId>>
    /\ UNCHANGED <<impl, envVars, systemStats, phishingAnalyses, deepfakeAnalyses,
                   honeypotLogs, alerts, currentPhishingId, currentDeepfakeId,
                   currentHoneypotId, currentAlertId, wsVars, outVars, emails>>

\* modular: const alert = await storage.createAlert({severity: threat.severity,
\* category: 'media', ...});  single file: res.json({analysis, result})
DeepfakeAlert(p) ==
    /\ proc[p].kind = "deepfake" /\ proc[p].pc = "threat"
    /\ IF impl = "modular"
       THEN /\ CreateAlert(p, proc[p].threatSeverity, "media",
                           proc[p].threatId, proc[p].analysisId)
            /\ SetProc(p, [proc[p] EXCEPT !.pc = "alert",
                                          !.alertId = currentAlertId])
       ELSE /\ SetProc(p, Finish(proc[p], "200"))
            /\ UNCHANGED <<alerts, currentAlertId>>
    /\ UNCHANGED <<impl, envVars, systemStats, threats, phishingAnalyses,
                   deepfakeAnalyses, honeypotLogs, currentThreatId,
                   currentPhishingId, currentDeepfakeId, currentHoneypotId,
                   wsVars, outVars, emails>>

\* broadcast({type: 'new_alert', alert, threat});
\* const stats = await storage.getSystemStats();
DeepfakeBroadcast(p) ==
    /\ proc[p].kind = "deepfake" /\ proc[p].pc = "alert"
    /\ \E f \in OpenClients \cup {NoClient} :
          /\ Broadcast(p, "new_alert", f)
          /\ IF f = NoClient
             THEN SetProc(p, [proc[p] EXCEPT !.pc = "statsRead",
                                             !.stats = systemStats])
             ELSE SetProc(p, Finish(proc[p], "500"))
    /\ UNCHANGED <<impl, envVars, systemStats, recVars, idVars, wsVars, emails>>

\* await storage.updateSystemStats({deepfakesDetected:
\*     stats.deepfakesDetected + 1, activeThreats: stats.activeThreats + 1})
DeepfakeUpdateStats(p) ==
    /\ proc[p].kind = "deepfake" /\ proc[p].pc = "statsRead"
    /\ UpdateSystemStats(
          [deepfakesDetected |-> proc[p].stats.deepfakesDetected + 1,
           activeThreats |-> proc[p].stats.activeThreats + 1])
    /\ SetProc(p, [proc[p] EXCEPT !.pc = "statsWritten", !.updated = TRUE,
                                  !.stats = NoStats])
    /\ UNCHANGED <<impl, envVars, recVars, idVars, wsVars, outVars, emails>>

\* res.json(result)
DeepfakeRespond(p) ==
    /\ proc[p].kind = "deepfake" /\ proc[p].pc = "statsWritten"
    /\ SetProc(p, Finish(proc[p], "200"))
    /\ UNCHANGED <<impl, envVars, systemStats, recVars, idVars, wsVars, outVars, emails>>

\* -------------------------------------------------------- HoneypotManager
Services == {"ssh", "http", "ftp"}

\* getRandomSeverity(...) in simulateSSHAttack / simulateHTTPAttack /
\* simulateFTPAttack: modular ssh ['medium','high'], http and ftp
\* ['low','medium']; single file ssh all four, http and ftp
\* ['low','medium','high']
GeneratorSeverities(i, service) ==
    IF i = "modular"
    THEN (IF service = "ssh" THEN {"medium", "high"} ELSE {"low", "medium"})
    ELSE (IF service = "ssh" THEN {"low", "medium", "high", "critical"}
          ELSE {"low", "medium", "high"})

\* geolocationService.getLocation(ip): modular returns the GeoLocation or,
\* when the lookup fails, null; the single file's mock always has one
Locations(i) == IF i = "modular" THEN {"null", "geo"} ELSE {"geo"}

\* emailAlertService.sendAttackAlert(data) never throws.  modular: true
\* when SendGrid is not configured or mailService.send went through, false
\* from its catch when the send failed; the single file's stand-in only
\* logs and returns true
EmailOutcomes(i) == IF i = "modular" THEN {"true", "false"} ELSE {"true"}

\* SshHighSeverity without its test of the service
AnyHighSeverity(service, severity) == severity \in {"high", "critical"}

\* if (attack.service === 'ssh' && (attack.severity === 'high' ||
\*     attack.severity === 'critical'))                       logAttack
SshHighSeverity(service, severity) ==
    service = "ssh" /\ severity \in {"high", "critical"}

\* if (attack.severity === 'high' || attack.severity === 'critical')
\*                                      routes, honeypotManager.on('attack')
ListenerCreatesAlert(severity) == severity \in {"high", "critical"}

\* payload: `Failed login attempts: ${n}`, `User-Agent: ${agent}`,
\* `Connection attempts: ${n}`: a text that is never empty
GeneratorPayload == "text"

\* a timer set by start() fires: simulateXAttack() builds the attack and
\* calls logAttack, which awaits geolocationService.getLocation
SimulateAttack(p) ==
    /\ manager.intervals > 0
    /\ CanStart(p)
    /\ \E service \in Services :
       \E severity \in GeneratorSeverities(impl, service) :
          SetProc(p, [proc[p] EXCEPT !.kind = "honeypot", !.pc = "geo",
                         !.service = service, !.severity = severity,
                         !.payload = GeneratorPayload])
    /\ UNCHANGED <<impl, envVars, systemStats, recVars, idVars, wsVars, outVars, emails>>

\* await storage.createHoneypotLog({...attack, location})
LogAttackStore(p) ==
    /\ proc[p].kind = "honeypot" /\ proc[p].pc = "geo"
    /\ \E location \in Locations(impl) :
          /\ CreateHoneypotLog(p, proc[p].service, proc[p].severity,
                               proc[p].payload, location)
          /\ SetProc(p, [proc[p] EXCEPT !.pc = "logged",
                            !.location = location,
                            !.logId = currentHoneypotId])
    /\ UNCHANGED <<impl, envVars, systemStats, threats, phishingAnalyses,
                   deepfakeAnalyses, alerts, currentThreatId,
                   currentPhishingId, currentDeepfakeId, currentAlertId,
                   wsVars, outVars, emails>>

\* after the log is stored.  modular: for a high-severity ssh attack
\* await emailAlertService.sendAttackAlert(emailData), otherwise go on to
\* const stats = await storage.getSystemStats().  single file: for a
\* high-severity ssh attack const alert = await storage.createAlert({...}),
\* otherwise go on to (await storage.getSystemStats())
LogAttackEscalate(p) ==
    /\ proc[p].kind = "honeypot" /\ proc[p].pc = "logged"
    /\ IF SshHighSeverity(proc[p].service, proc[p].severity)
       THEN IF impl = "modular"
            THEN /\ emails' = emails \cup {p}
                 /\ SetProc(p, [proc[p] EXCEPT !.pc = "email"])
                 /\ UNCHANGED <<alerts, currentAlertId>>
            ELSE /\ CreateAlert(p, proc[p].severity, "honeypot", NoId, NoId)
                 /\ SetProc(p, [proc[p] EXCEPT !.pc = "alert",
                                               !.alertId = currentAlertId])
                 /\ UNCHANGED emails
       ELSE /\ SetProc(p, [proc[p] EXCEPT !.pc = "statsRead",
                                          !.stats = systemStats])
            /\ UNCHANGED <<alerts, currentAlertId, emails>>
    /\ UNCHANGED <<impl, envVars, systemStats, threats, phishingAnalyses,
                   deepfakeAnalyses, honeypotLogs, currentThreatId,
                   currentPhishingId, currentDeepfakeId, currentHoneypotId,
                   wsVars, outVars>>

\* single file, after createAlert: await emailAlertService.sendAttackAlert
LogAttackEmail(p) ==
    /\ proc[p].kind = "honeypot" /\ proc[p].pc = "alert"
    /\ emails' = emails \cup {p}
    /\ SetProc(p, [proc[p] EXCEPT !.pc = "email"])
    /\ UNCHANGED <<impl, envVars, systemStats, recVars, idVars, wsVars, outVars>>

\* a logAttack in which a failed sendAttackAlert throws: the exception lands
\* in logAttack's catch and the rest of the body is skipped
LogAttackReadStatsThrows(p) ==
    /\ proc[p].kind = "honeypot" /\ proc[p].pc = "email"
    /\ \E mailed \in EmailOutcomes(impl) :
          SetProc(p, IF mailed = "false"
                     THEN [Finish(proc[p], "caught") EXCEPT !.mailed = mailed]
                     ELSE [proc[p] EXCEPT !.pc = "statsRead",
                                          !.mailed = mailed,
                                          !.stats = systemStats])
    /\ UNCHANGED <<impl, envVars, systemStats, recVars, idVars, wsVars,
                   outVars, emails>>

\* after sendAttackAlert, whose result is not looked at.  modular:
\* const stats = await storage.getSystemStats().  single file:
\* broadcast({type: 'new_alert', alert, honeypotLog}), then
\* (await storage.getSystemStats()); a send that throws lands in
\* logAttack's catch
LogAttackReadStats(p) ==
    /\ proc[p].kind = "honeypot" /\ proc[p].pc = "email"
    /\ \E mailed \in EmailOutcomes(impl) :
       IF impl = "modular"
       THEN /\ SetProc(p, [proc[p] EXCEPT !.pc = "statsRead",
                                          !.mailed = mailed,
                                          !.stats = systemStats])
            /\ UNCHANGED outVars
       ELSE \E f \in OpenClients \cup {NoClient} :
              /\ Broadcast(p, "new_alert", f)
              /\ IF f = NoClient
                 THEN SetProc(p, [proc[p] EXCEPT !.pc = "statsRead",
                                                 !.mailed = mailed,
                                                 !.stats = systemStats])
                 ELSE SetProc(p, [Finish(proc[p], "caught") EXCEPT
                                     !.mailed = mailed])
    /\ UNCHANGED <<impl, envVars, systemStats, recVars, idVars, wsVars, emails>>

\* await storage.updateSystemStats({honeypotHits: stats.honeypotHits + 1})
LogAttackUpdateStats(p) ==
    /\ proc[p].kind = "honeypot" /\ proc[p].pc = "statsRead"
    /\ UpdateSystemStats([honeypotHits |-> proc[p].stats.honeypotHits + 1])
    /\ SetProc(p, [proc[p] EXCEPT !.pc = "statsWritten", !.updated = TRUE,
                                  !.stats = NoStats])
    /\ UNCHANGED <<impl, envVars, recVars, idVars, wsVars, outVars, emails>>

\* this.emit('attack', attack).  The single file registers no listener.
\* modular listener: for a high or critical attack
\* const alert = await storage.createAlert({...}), otherwise
\* broadcast({type: 'honeypot_attack', attack}); a send that throws rejects
\* the promise of simulateXAttack, which nobody handles
EmitAttack(p) ==
    /\ proc[p].kind = "honeypot" /\ proc[p].pc = "statsWritten"
    /\ IF impl = "single"
       THEN /\ SetProc(p, Finish(proc[p], "ok"))
            /\ UNCHANGED <<alerts, currentAlertId, outVars>>
       ELSE IF ListenerCreatesAlert(proc[p].severity)
       THEN /\ CreateAlert(p, proc[p].severity, "honeypot", NoId, NoId)
            /\ SetProc(p, [proc[p] EXCEPT !.pc = "listenerAlert",
                                          !.alertId = currentAlertId])
            /\ UNCHANGED outVars
       ELSE /\ \E f \in OpenClients \cup {NoClient} :
                 /\ Broadcast(p, "honeypot_attack", f)
                 /\ SetProc(p, Finish(proc[p],
                        IF f = NoClient THEN "ok" ELSE "unhandled"))
            /\ UNCHANGED <<alerts, currentAlertId>>
    /\ UNCHANGED <<impl, envVars, systemStats, threats, phishingAnalyses,
                   deepfakeAnalyses, honeypotLogs, currentThreatId,
                   currentPhishingId, currentDeepfakeId, currentHoneypotId,
                   wsVars, emails>>

\* modular listener, after createAlert:
\* broadcast({type: 'honeypot_attack', attack, alert})
ListenerBroadcast(p) ==
    /\ proc[p].kind = "honeypot" /\ proc[p].pc = "listenerAlert"
    /\ \E f \in OpenClients \cup {NoClient} :
          /\ Broadcast(p, "honeypot_attack", f)
          /\ SetProc(p, Finish(proc[p],
                 IF f = NoClient THEN "ok" ELSE "unhandled"))
    /\ UNCHANGED <<impl, envVars, systemStats, recVars, idVars, wsVars, emails>>

\* ------------------------------------- PATCH /api/alerts/:id/read handler
\* the ids a request may name: those of the alerts there can be, and more
AlertIds == 1..(MaxProcs + 1)

\* const id = parseInt(req.params.id); await storage.markAlertAsRead(id)
MarkReadRequest(p) ==
    /\ CanStart(p)
    /\ \E id \in AlertIds :
          /\ MarkAlertAsRead(id)
          /\ SetProc(p, [proc[p] EXCEPT !.kind = "markRead", !.pc = "marked",
                                        !.arg = id])
    /\ UNCHANGED <<impl, envVars, systemStats, threats, phishingAnalyses,
                   deepfakeAnalyses, honeypotLogs, idVars, wsVars, outVars,
                   emails>>

\* res.json({ success: true })
MarkReadRespond(p) ==
    /\ proc[p].kind = "markRead" /\ proc[p].pc = "marked"
    /\ SetProc(p, Finish(proc[p], "200"))
    /\ UNCHANGED <<impl, envVars, systemStats, recVars, idVars, wsVars, outVars, emails>>

\* ------------------------------------ PATCH /api/alerts/read-all handler
\* markAllAlertsAsRead that writes every alert back as a fresh unread one
MarkAllAlertsAsUnread ==
    alerts' = [i \in DOMAIN alerts |-> [alerts[i] EXCEPT !.isRead = FALSE]]

\* markAllAlertsAsRead(): for (const alert of alerts) alert.isRead = true
MarkAllAlertsAsRead ==
    alerts' = [i \in DOMAIN alerts |-> [alerts[i] EXCEPT !.isRead = TRUE]]

\* await storage.markAllAlertsAsRead()   (the single file has no such route)
MarkAllReadRequest(p) ==
    /\ impl = "modular"
    /\ CanStart(p)
    /\ MarkAllAlertsAsRead
    /\ SetProc(p, [proc[p] EXCEPT !.kind = "markAll", !.pc = "marked"])
    /\ UNCHANGED <<impl, envVars, systemStats, threats, phishingAnalyses,
                   deepfakeAnalyses, honeypotLogs, idVars, wsVars, outVars,
                   emails>>

\* res.json({ success: true })
MarkAllReadRespond(p) ==
    /\ proc[p].kind = "markAll" /\ proc[p].pc = "marked"
    /\ SetProc(p, Finish(proc[p], "200"))
    /\ UNCHANGED <<impl, envVars, systemStats, recVars, idVars, wsVars,
                   outVars, emails>>

Next ==
    \/ \E c \in Clients : Connect(c)
    \/ \E c \in Clients : TransportClose(c)
    \/ \E c \in Clients : OnClose(c)
    \/ \E c \in Clients : OnError(c)
    \/ \E p \in Procs : PhishingSubmit(p)
    \/ \E p \in Procs : PhishingStore(p)
    \/ \E p \in Procs : PhishingDecide(p)
    \/ \E p \in Procs : PhishingAlert(p)
    \/ \E p \in Procs : PhishingBroadcast(p)
    \/ \E p \in Procs : PhishingUpdateStats(p)
    \/ \E p \in Procs : PhishingRespond(p)
    \/ \E p \in Procs : DeepfakeSubmit(p)
    \/ \E p \in Procs : DeepfakeStore(p)
    \/ \E p \in Procs : DeepfakeDecide(p)
    \/ \E p \in Procs : DeepfakeAlert(p)
    \/ \E p \in Procs : DeepfakeBroadcast(p)
    \/ \E p \in Procs : DeepfakeUpdateStats(p)
    \/ \E p \in Procs : DeepfakeRespond(p)
    \/ \E p \in Procs : SimulateAttack(p)
    \/ \E p \in Procs : LogAttackStore(p)
    \/ \E p \in Procs : LogAttackEscalate(p)
    \/ \E p \in Procs : LogAttackEmail(p)
    \/ \E p \in Procs : LogAttackReadStats(p)
    \/ \E p \in Procs : LogAttackUpdateStats(p)
    \/ \E p \in Procs : EmitAttack(p)
    \/ \E p \in Procs : ListenerBroadcast(p)
    \/ \E p \in Procs : MarkReadRequest(p)
    \/ \E p \in Procs : MarkReadRespond(p)

Spec == Init /\ [][Next]_vars

\* ------------------------------------------------- stats_update publisher
\* setInterval(async () => { try { const stats = await
\* storage.getSystemStats(); if (stats) broadcast({type: 'stats_update',
\* stats}) } catch (error) { console.error(...) } }, 30000)
\* (the single file has no such timer)
MaxTicks == 2
NoProc == 0

\* the timer fires: the callback calls getSystemStats() and awaits
StatsTick ==
    /\ impl = "modular"
    /\ statsTimer.pc = "armed"
    /\ statsTimer.ticks < MaxTicks
    /\ statsTimer' = [pc |-> "read", stats |-> systemStats,
                      ticks |-> statsTimer.ticks + 1]
    /\ UNCHANGED <<impl, systemStats, recVars, idVars, proc, wsVars, outVars,
                   emails, now, listed, manager, hook>>

\* a publisher that a throwing send puts out of service
StatsPublishUncaught ==
    /\ statsTimer.pc = "read"
    /\ \E f \in OpenClients \cup {NoClient} :
          /\ BroadcastMessage([type |-> "stats_update", by |-> NoProc,
                               stats |-> statsTimer.stats,
                               statsApplied |-> TRUE], f)
          /\ statsTimer' = [statsTimer EXCEPT
                  !.pc = IF f = NoClient THEN "armed" ELSE "stopped",
                  !.stats = NoStats]
    /\ UNCHANGED <<impl, systemStats, recVars, idVars, proc, wsVars, emails,
                   now, listed, manager, hook>>

\* the callback resumes: broadcast({type: 'stats_update', stats}); a send
\* that throws lands in the callback's catch, which logs it
StatsPublish ==
    /\ statsTimer.pc = "read"
    /\ \E f \in OpenClients \cup {NoClient} :
          BroadcastMessage([type |-> "stats_update", by |-> NoProc,
                            stats |-> statsTimer.stats,
                            statsApplied |-> TRUE], f)
    /\ statsTimer' = [statsTimer EXCEPT !.pc = "armed", !.stats = NoStats]
    /\ UNCHANGED <<impl, systemStats, recVars, idVars, proc, wsVars, emails,
                   now, listed, manager, hook>>

\* no handler has run yet
NoneStarted == \A q \in Procs : proc[q].kind = "idle"

\* the subscribers, the stats timer and one execution of a handler that
\* broadcasts: an analysis route or a honeypot generator with its listener
NextNotifier ==
    \/ \E c \in Clients : Connect(c)
    \/ \E c \in Clients : TransportClose(c)
    \/ \E c \in Clients : OnClose(c)
    \/ \E c \in Clients : OnError(c)
    \/ StatsTick
    \/ StatsPublish
    \/ \E p \in Procs : NoneStarted /\ PhishingSubmit(p)
    \/ \E p \in Procs : PhishingStore(p)
    \/ \E p \in Procs : PhishingDecide(p)
    \/ \E p \in Procs : PhishingAlert(p)
    \/ \E p \in Procs : PhishingBroadcast(p)
    \/ \E p \in Procs : PhishingUpdateStats(p)
    \/ \E p \in Procs : PhishingRespond(p)
    \/ \E p \in Procs : NoneStarted /\ SimulateAttack(p)
    \/ \E p \in Procs : LogAttackStore(p)
    \/ \E p \in Procs : LogAttackEscalate(p)
    \/ \E p \in Procs : LogAttackEmail(p)
    \/ \E p \in Procs : LogAttackReadStats(p)
    \/ \E p \in Procs : LogAttackUpdateStats(p)
    \/ \E p \in Procs : EmitAttack(p)
    \/ \E p \in Procs : ListenerBroadcast(p)

SpecNotifier == Init /\ [][NextNotifier]_vars

\* ----------------------------------------------------------- list routes
MaxClock == 1

\* a millisecond passes: new Date() now gives a later timestamp
Tick ==
    /\ now < MaxClock
    /\ now' = now + 1
    /\ UNCHANGED <<impl, systemStats, recVars, idVars, proc, wsVars, outVars,
                   emails, statsTimer, listed, manager, hook>>

\* Array.from(map.values()).sort((a, b) => b.at.getTime() - a.at.getTime()):
\* the values come in insertion order and the sort is stable, so records
\* that compare equal keep that order
SortByTimeDesc(seq, at) ==
    LET n == Len(seq)
        rank(i) == 1 + Cardinality({j \in 1..n :
                          \/ seq[j][at] > seq[i][at]
                          \/ (seq[j][at] = seq[i][at] /\ j < i)})
    IN  [k \in 1..n |-> seq[CHOOSE i \in 1..n : rank(i) = k]]

\* what a list answer shows of each record
Rows(seq, at) ==
    [k \in DOMAIN seq |-> [id |-> seq[k].id, at |-> seq[k][at], rec |-> seq[k]]]

\* GET /api/threats, /api/analysis/phishing, /api/analysis/deepfake,
\* /api/honeypot/logs, /api/alerts: res.json(await storage.getX(limit)),
\* the limit (50 or 100) being above the number of records here
ListRoute(of, seq, at) ==
    /\ listed = NoList
    /\ listed' = [of |-> of, rows |-> Rows(SortByTimeDesc(seq, at), at)]
    /\ UNCHANGED <<impl, systemStats, recVars, idVars, proc, wsVars, outVars,
                   emails, statsTimer, now, manager, hook>>

GetThreats == ListRoute("threats", threats, "detectedAt")
GetPhishingAnalyses ==
    ListRoute("phishingAnalyses", phishingAnalyses, "analyzedAt")
GetDeepfakeAnalyses ==
    ListRoute("deepfakeAnalyses", deepfakeAnalyses, "analyzedAt")
GetHoneypotLogs == ListRoute("honeypotLogs", honeypotLogs, "detectedAt")
GetAlerts == ListRoute("alerts", alerts, "createdAt")

\* no handler is suspended at an await
NoneInFlight == \A q \in Procs : proc[q].pc \in {"idle", "done"}

\* the clock, submissions handled one after the other, and one list request
NextList ==
    \/ Tick
    \/ GetThreats
    \/ GetPhishingAnalyses
    \/ GetDeepfakeAnalyses
    \/ GetHoneypotLogs
    \/ GetAlerts
    \/ \E p \in Procs : NoneInFlight /\ PhishingSubmit(p)
    \/ \E p \in Procs : PhishingStore(p)
    \/ \E p \in Procs : PhishingDecide(p)
    \/ \E p \in Procs : PhishingAlert(p)
    \/ \E p \in Procs : PhishingBroadcast(p)
    \/ \E p \in Procs : PhishingUpdateStats(p)
    \/ \E p \in Procs : PhishingRespond(p)
    \/ \E p \in Procs : NoneInFlight /\ DeepfakeSubmit(p)
    \/ \E p \in Procs : DeepfakeStore(p)
    \/ \E p \in Procs : DeepfakeDecide(p)
    \/ \E p \in Procs : DeepfakeAlert(p)
    \/ \E p \in Procs : DeepfakeBroadcast(p)
    \/ \E p \in Procs : DeepfakeUpdateStats(p)
    \/ \E p \in Procs : DeepfakeRespond(p)
    \/ \E p \in Procs : NoneInFlight /\ SimulateAttack(p)
    \/ \E p \in Procs : LogAttackStore(p)
    \/ \E p \in Procs : LogAttackEscalate(p)
    \/ \E p \in Procs : LogAttackEmail(p)
    \/ \E p \in Procs : LogAttackReadStats(p)
    \/ \E p \in Procs : LogAttackUpdateStats(p)
    \/ \E p \in Procs : EmitAttack(p)
    \/ \E p \in Procs : ListenerBroadcast(p)

SpecList == Init /\ [][NextList]_vars

\* --------------------------------------------- the alert routes on a store
\* that earlier attacks have filled
MaxSeedAlerts == 2

\* the store after n high-severity ssh attacks were handled one after the
\* other, each to its end, with no subscriber connected: n logs, n alerts
\* of category honeypot, honeypotHits raised n times
SeedLogs(n) ==
    [k \in 1..n |->
        [id |-> k, service |-> "ssh", severity |-> "high",
         payload |-> GeneratorPayload, location |-> "geo", by |-> NoProc,
         detectedAt |-> 0]]

SeedAlerts(n) ==
    [k \in 1..n |->
        [id |-> k, severity |-> "high", category |-> "honeypot",
         isRead |-> FALSE, threatId |-> NoId, analysisId |-> NoId,
         by |-> NoProc, createdAt |-> 0]]

InitAlerts ==
    /\ impl \in {"modular", "single"}
    /\ \E n \in 0..MaxSeedAlerts :
          /\ systemStats = [InitStats(impl) EXCEPT
                               !.honeypotHits = InitHoneypotHits(impl) + n]
          /\ honeypotLogs = SeedLogs(n)
          /\ alerts = SeedAlerts(n)
          /\ currentHoneypotId = n + 1
          /\ currentAlertId = n + 1
    /\ threats = <<>>
    /\ phishingAnalyses = <<>>
    /\ deepfakeAnalyses = <<>>
    /\ currentThreatId = 1
    /\ currentPhishingId = 1
    /\ currentDeepfakeId = 1
    /\ proc = [p \in Procs |-> IdleProc]
    /\ wsClients = <<>>
    /\ readyState = [c \in Clients |-> "NONE"]
    /\ sent = <<>>
    /\ emails = {}
    /\ inbox = [c \in Clients |-> <<>>]
    /\ statsTimer = ArmedTimer
    /\ now = 0
    /\ listed = NoList
    /\ manager = StartedManager
    /\ hook = NoHook

\* the submissions and the two routes that mark alerts, no subscriber
NextAlerts ==
    \/ \E p \in Procs : PhishingSubmit(p)
    \/ \E p \in Procs : PhishingStore(p)
    \/ \E p \in Procs : PhishingDecide(p)
    \/ \E p \in Procs : PhishingAlert(p)
    \/ \E p \in Procs : PhishingBroadcast(p)
    \/ \E p \in Procs : PhishingUpdateStats(p)
    \/ \E p \in Procs : PhishingRespond(p)
    \/ \E p \in Procs : SimulateAttack(p)
    \/ \E p \in Procs : LogAttackStore(p)
    \/ \E p \in Procs : LogAttackEscalate(p)
    \/ \E p \in Procs : LogAttackEmail(p)
    \/ \E p \in Procs : LogAttackReadStats(p)
    \/ \E p \in Procs : LogAttackUpdateStats(p)
    \/ \E p \in Procs : EmitAttack(p)
    \/ \E p \in Procs : ListenerBroadcast(p)
    \/ \E p \in Procs : MarkReadRequest(p)
    \/ \E p \in Procs : MarkReadRespond(p)
    \/ \E p \in Procs : MarkAllReadRequest(p)
    \/ \E p \in Procs : MarkAllReadRespond(p)

SpecAlerts == InitAlerts /\ [][NextAlerts]_vars

\* ------------------------------------------------- the store called directly
\* InsertHoneypotLog: service, severity and port are required texts, payload
\* is an optional text (the empty text is one), location an optional object
Severities == {"low", "medium", "high", "critical"}
Payloads == {"", GeneratorPayload}

\* storage.createHoneypotLog(insertLog) for any InsertHoneypotLog; the
\* execution keeps what it supplied
InsertHoneypotLog(p) ==
    /\ CanStart(p)
    /\ \E service \in Services, severity \in Severities,
          payload \in Payloads, location \in {"null", "geo"} :
          /\ CreateHoneypotLog(p, service, severity, payload, location)
          /\ SetProc(p, [proc[p] EXCEPT !.kind = "insert", !.pc = "done",
                            !.res = "ok", !.service = service,
                            !.severity = severity, !.payload = payload,
                            !.location = location,
                            !.logId = currentHoneypotId])
    /\ UNCHANGED <<impl, envVars, systemStats, threats, phishingAnalyses,
                   deepfakeAnalyses, alerts, currentThreatId,
                   currentPhishingId, currentDeepfakeId, currentAlertId,
                   wsVars, outVars, emails>>

\* the clock, insertions into the store and one list request
NextStore ==
    \/ Tick
    \/ GetHoneypotLogs
    \/ \E p \in Procs : InsertHoneypotLog(p)

SpecStore == Init /\ [][NextStore]_vars

\* ------------------------------------------- the generators under fairness
\* the honeypot generators and the listener of 'attack', no subscriber
NextLive ==
    \/ \E p \in Procs : SimulateAttack(p)
    \/ \E p \in Procs : LogAttackStore(p)
    \/ \E p \in Procs : LogAttackEscalate(p)
    \/ \E p \in Procs : LogAttackEmail(p)
    \/ \E p \in Procs : LogAttackReadStats(p)
    \/ \E p \in Procs : LogAttackUpdateStats(p)
    \/ \E p \in Procs : EmitAttack(p)
    \/ \E p \in Procs : ListenerBroadcast(p)

\* An await of a store method is settled by the store itself, which does no
\* I/O: the event loop resumes the execution.  The await of getLocation and
\* of sendAttackAlert is settled when the collaborator answers.  The single
\* file's stand-ins answer at once.  The modular getLocation awaits
\* fetch(...) and sendAttackAlert awaits mailService.send(msg), neither with
\* a timeout of its own: nothing in the program makes them answer.
StoreFairness ==
    \A p \in Procs :
        /\ WF_vars(LogAttackEscalate(p))
        /\ WF_vars(LogAttackEmail(p))
        /\ WF_vars(LogAttackUpdateStats(p))
        /\ WF_vars(EmitAttack(p))
        /\ WF_vars(ListenerBroadcast(p))

CollaboratorFairness ==
    \A p \in Procs :
        /\ WF_vars(impl = "single" /\ LogAttackStore(p))
        /\ WF_vars(impl = "single" /\ LogAttackReadStats(p))

SpecLive ==
    Init /\ [][NextLive]_vars /\ StoreFairness /\ CollaboratorFairness

\* ------------------------------------------- a server that keeps on serving
MaxSubmissions == 3

\* the handler has answered and its execution is over: the server goes on
\* to handle later requests beside those still in flight
Retire(p) ==
    /\ proc[p].pc = "done"
    /\ SetProc(p, IdleProc)
    /\ UNCHANGED <<impl, envVars, systemStats, recVars, idVars, wsVars,
                   outVars, emails>>

\* fewer than MaxSubmissions analyses have been stored
MoreToCome == currentPhishingId <= MaxSubmissions

\* phishing submissions arriving one after another, overlapping or not
NextServing ==
    \/ \E p \in Procs : MoreToCome /\ PhishingSubmit(p)
    \/ \E p \in Procs : PhishingStore(p)
    \/ \E p \in Procs : PhishingDecide(p)
    \/ \E p \in Procs : PhishingAlert(p)
    \/ \E p \in Procs : PhishingBroadcast(p)
    \/ \E p \in Procs : PhishingUpdateStats(p)
    \/ \E p \in Procs : PhishingRespond(p)
    \/ \E p \in Procs : Retire(p)

SpecServing == Init /\ [][NextServing]_vars

\* ------------------------------------------------ start() and stop() calls
MaxCalls == 3

\* what a call of start() or stop() found: the history kept in manager.calls
Call(op) == [op |-> op, wasRunning |-> manager.isRunning]

\* start() without its test of isRunning
StartUnguarded ==
    /\ Len(manager.calls) < MaxCalls
    /\ manager' = [isRunning |-> TRUE,
                   intervals |-> manager.intervals + ServiceTimers,
                   calls |-> Append(manager.calls, Call("start"))]
    /\ UNCHANGED <<impl, systemStats, recVars, idVars, proc, wsVars, outVars,
                   emails, statsTimer, now, listed, hook>>

\* start(): if (this.isRunning) return; this.isRunning = true; then one
\* this.intervals.push(setInterval(...)) for each of the three services
Start ==
    /\ Len(manager.calls) < MaxCalls
    /\ manager' =
          IF manager.isRunning
          THEN [manager EXCEPT !.calls = Append(@, Call("start"))]
          ELSE [isRunning |-> TRUE,
                intervals |-> manager.intervals + ServiceTimers,
                calls |-> Append(manager.calls, Call("start"))]
    /\ UNCHANGED <<impl, systemStats, recVars, idVars, proc, wsVars, outVars,
                   emails, statsTimer, now, listed, hook>>

\* stop(): modular if (!this.isRunning) return; both: this.isRunning =
\* false; this.intervals.forEach(clearInterval); this.intervals = [].
\* Executions of simulateXAttack that are in flight are not touched.
Stop ==
    /\ Len(manager.calls) < MaxCalls
    /\ manager' =
          IF impl = "modular" /\ ~manager.isRunning
          THEN [manager EXCEPT !.calls = Append(@, Call("stop"))]
          ELSE [isRunning |-> FALSE, intervals |-> 0,
                calls |-> Append(manager.calls, Call("stop"))]
    /\ UNCHANGED <<impl, systemStats, recVars, idVars, proc, wsVars, outVars,
                   emails, statsTimer, now, listed, hook>>

\* calls of start() and stop() beside the generators they control
NextManager ==
    \/ Start
    \/ Stop
    \/ \E p \in Procs : SimulateAttack(p)
    \/ \E p \in Procs : LogAttackStore(p)
    \/ \E p \in Procs : LogAttackEscalate(p)
    \/ \E p \in Procs : LogAttackEmail(p)
    \/ \E p \in Procs : LogAttackReadStats(p)
    \/ \E p \in Procs : LogAttackUpdateStats(p)
    \/ \E p \in Procs : EmitAttack(p)
    \/ \E p \in Procs : ListenerBroadcast(p)

SpecManager == Init /\ [][NextManager]_vars

\* ------------------------------------------------- useWebSocket (client)
MaxSockets == 4

\* the variables that the hook's code does not touch
serverVars == <<impl, systemStats, recVars, idVars, proc, wsVars, outVars,
                emails, statsTimer, now, listed, manager>>

\* connect(): wsRef.current = new WebSocket(wsUrl) and the four handlers; if
\* the constructor throws, the catch sets a timeout that calls connect()
HookConnect(h, thrown) ==
    IF thrown
    THEN [h EXCEPT !.timers = @ + 1]
    ELSE [h EXCEPT !.ws = "CONNECTING", !.opened = @ + 1]

\* the component mounts: useEffect(() => { connect(); ... }, [])
Mount ==
    /\ hook.mounted = "never"
    /\ \E thrown \in BOOLEAN :
          hook' = HookConnect([hook EXCEPT !.mounted = "mounted"], thrown)
    /\ UNCHANGED serverVars

\* wsRef.current.onopen: setIsConnected(true)
WsOnOpen ==
    /\ hook.ws = "CONNECTING"
    /\ hook' = [hook EXCEPT !.ws = "OPEN", !.isConnected = TRUE]
    /\ UNCHANGED serverVars

\* the connection fails or is dropped.  wsRef.current.onerror:
\* setIsConnected(false); the socket then closes
WsOnError ==
    /\ hook.ws \in {"CONNECTING", "OPEN"}
    /\ hook' = [hook EXCEPT !.ws = "CLOSING", !.isConnected = FALSE]
    /\ UNCHANGED serverVars

\* the server closes the connection; the close event is still to come
WsClosing ==
    /\ hook.ws = "OPEN"
    /\ hook' = [hook EXCEPT !.ws = "CLOSING"]
    /\ UNCHANGED serverVars

\* wsRef.current.onclose: setIsConnected(false);
\* reconnectTimeoutRef.current = setTimeout(() => connect(), 3000)
WsOnClose ==
    /\ hook.ws = "CLOSING"
    /\ hook' = [hook EXCEPT !.ws = "CLOSED", !.isConnected = FALSE,
                            !.timers = @ + 1]
    /\ UNCHANGED serverVars

\* a reconnect timeout fires: connect()
ReconnectTimer ==
    /\ hook.timers > 0
    /\ hook.opened < MaxSockets
    /\ \E thrown \in BOOLEAN :
          hook' = HookConnect([hook EXCEPT !.timers = @ - 1], thrown)
    /\ UNCHANGED serverVars

\* the component unmounts, the effect's cleanup runs:
\* if (reconnectTimeoutRef.current) clearTimeout(reconnectTimeoutRef.current);
\* if (wsRef.current) wsRef.current.close().  close() starts the closing
\* handshake of a socket that is connecting or open; onclose stays set
Cleanup ==
    /\ hook.mounted = "mounted"
    /\ hook' = [hook EXCEPT
          !.mounted = "unmounted",
          !.timers = IF @ > 0 THEN @ - 1 ELSE 0,
          !.ws = IF @ \in {"CONNECTING", "OPEN"} THEN "CLOSING" ELSE @,
          !.openedAtCleanup = hook.opened]
    /\ UNCHANGED serverVars

NextClient ==
    \/ Mount
    \/ WsOnOpen
    \/ WsOnError
    \/ WsClosing
    \/ WsOnClose
    \/ ReconnectTimer
    \/ Cleanup

SpecClient == Init /\ [][NextClient]_vars

\* ------------------------------------------------------------- vocabulary
Done(p) == proc[p].pc = "done"
Quiescent == \A p \in Procs : proc[p].pc \in {"idle", "done"}
RecordsBy(seq, p) == {i \in DOMAIN seq : seq[i].by = p}
HasThreat(p) == RecordsBy(threats, p) # {}
HasAlert(p) == RecordsBy(alerts, p) # {}
\* a submission that passed validation and was analysed
Analysed(p, kind) == proc[p].kind = kind /\ proc[p].analysisId # NoId
\* the sockets on which a broadcast called send
Attempted(r) ==
    r.delivered \cup (IF r.failed = NoClient THEN {} ELSE {r.failed})
\* a logAttack execution that ran to its end, not into its catch block
LogAttackFinished(p) ==
    proc[p].kind = "honeypot" /\ Done(p) /\ proc[p].res # "caught"

\* ------------------------------------------------------------------ claims

\* C1: once all concurrent logAttack executions have finished, honeypotHits
\* has grown by exactly their number: no increment is lost.
C1_NoLostUpdate ==
    Quiescent =>
        systemStats.honeypotHits =
            InitHoneypotHits(impl)
            + Cardinality({p \in Procs : LogAttackFinished(p)})

\* C7: when no submission is in progress, honeypotHits equals the number of
\* honeypot logs ever inserted.
C7_HitsEqualLogs ==
    Quiescent => systemStats.honeypotHits = Len(honeypotLogs)

\* C2: whenever a new_alert or honeypot_attack message reaches a subscriber,
\* the stats update of the submission that caused it has already run.
C2_StatsBeforeBroadcast ==
    \A i \in DOMAIN sent :
        (sent[i].type \in {"new_alert", "honeypot_attack"}
            /\ sent[i].delivered # {})
        => sent[i].statsApplied

\* C3: when the send to one Open subscriber throws during a broadcast, every
\* other Open subscriber still receives the message, the failing subscriber
\* is removed from the active set, and no later broadcast tries it again.
C3_FailureIsolated ==
    \A i \in DOMAIN sent :
        sent[i].failed # NoClient =>
            /\ sent[i].delivered = sent[i].open \ {sent[i].failed}
            /\ ~InSet(sent[i].failed)
            /\ \A j \in DOMAIN sent :
                  j > i => sent[i].failed \notin Attempted(sent[j])

\* C4: a phishing submission escalates (a Threat and an Alert are created)
\* if and only if score >= 70; the Threat is critical exactly when
\* score >= 90 and high otherwise; the analysis is stored for every score.
C4_PhishingPolicy ==
    \A p \in Procs :
        Analysed(p, "phishing") =>
            /\ (HasThreat(p) \/ HasAlert(p)) => proc[p].score >= 70
            /\ \A i \in RecordsBy(threats, p) :
                  threats[i].severity =
                      IF proc[p].score >= 90 THEN "critical" ELSE "high"
            /\ \E i \in RecordsBy(phishingAnalyses, p) :
                  phishingAnalyses[i].score = proc[p].score
            /\ (Done(p) /\ proc[p].score >= 70)
                  => (HasThreat(p) /\ HasAlert(p))

\* C5: a deepfake submission escalates if and only if isDeepfake is true
\* and confidence >= 0.80 on the 0..1 scale; the Threat is critical exactly
\* when confidence >= 0.95 and high otherwise; any other result is stored
\* without a Threat or an Alert.
C5_DeepfakePolicy ==
    \A p \in Procs :
        Analysed(p, "deepfake") =>
            LET escalate == proc[p].isDeepfake /\ proc[p].confidence >= 800
            IN  /\ (HasThreat(p) \/ HasAlert(p)) => escalate
                /\ \A i \in RecordsBy(threats, p) :
                      threats[i].severity =
                          IF proc[p].confidence >= 950
                          THEN "critical" ELSE "high"
                /\ \E i \in RecordsBy(deepfakeAnalyses, p) :
                      /\ deepfakeAnalyses[i].isDeepfake = proc[p].isDeepfake
                      /\ deepfakeAnalyses[i].confidence = proc[p].confidence
                /\ (Done(p) /\ escalate) => (HasThreat(p) /\ HasAlert(p))

\* C6: an Alert of category honeypot is created for an attack if and only
\* if the attack is an ssh attack of severity high or critical; no other
\* attack produces an Alert or an email, and every attack is stored as a log.
C6_HoneypotAlertPolicy ==
    /\ \A i \in DOMAIN alerts :
          alerts[i].category = "honeypot" =>
              /\ proc[alerts[i].by].kind = "honeypot"
              /\ alerts[i].severity = proc[alerts[i].by].severity
    /\ \A p \in Procs :
          proc[p].kind = "honeypot" =>
              /\ (HasAlert(p) \/ p \in emails)
                    => (proc[p].service = "ssh"
                        /\ proc[p].severity \in {"high", "critical"})
              /\ Cardinality(RecordsBy(alerts, p)) <= 1
              /\ (HasAlert(p) \/ p \in emails \/ Done(p))
                    => \E i \in RecordsBy(honeypotLogs, p) :
                          /\ honeypotLogs[i].service = proc[p].service
                          /\ honeypotLogs[i].severity = proc[p].severity
              /\ (Done(p) /\ proc[p].service = "ssh"
                    /\ proc[p].severity \in {"high", "critical"})
                    => HasAlert(p)

\* C6 witness: a high-severity ssh attack that ended with its Alert and its
\* email, beside an attack of another kind that ended with neither.
C6_Witness ==
    /\ \E p \in Procs :
          /\ proc[p].kind = "honeypot" /\ Done(p)
          /\ proc[p].service = "ssh" /\ proc[p].severity = "high"
          /\ HasAlert(p) /\ p \in emails
    /\ \E p \in Procs :
          /\ proc[p].kind = "honeypot" /\ Done(p)
          /\ proc[p].service # "ssh"
          /\ ~HasAlert(p) /\ p \notin emails
          /\ RecordsBy(honeypotLogs, p) # {}

\* C8: every phishing submission with score >= 90 ends with exactly one
\* Threat, of severity critical, exactly one Alert and exactly one broadcast
\* of type new_alert, and its stats update raises phishingBlocked and
\* activeThreats by 1 each.
C8_CriticalPhishing ==
    [][\A p \in Procs :
          (proc'[p].kind = "phishing" /\ proc'[p].score >= 90) =>
              /\ (~Done(p) /\ Done(p)') =>
                    /\ Cardinality(RecordsBy(threats', p)) = 1
                    /\ \A i \in RecordsBy(threats', p) :
                          threats'[i].severity = "critical"
                    /\ Cardinality(RecordsBy(alerts', p)) = 1
                    /\ Cardinality({i \in RecordsBy(sent', p) :
                                      sent'[i].type = "new_alert"}) = 1
                    /\ proc'[p].updated
              /\ (~proc[p].updated /\ proc'[p].updated) =>
                    /\ systemStats'.phishingBlocked
                          = systemStats.phishingBlocked + 1
                    /\ systemStats'.activeThreats
                          = systemStats.activeThreats + 1
      ]_vars

\* C9: a phishing submission with score below 70 stores its analysis and
\* changes nothing else: no Threat, no Alert, no broadcast, and the stats
\* keep their values.
C9_BelowThresholdFrame ==
    [][\A p \in Procs :
          (proc'[p] # proc[p] /\ proc'[p].kind = "phishing"
              /\ proc'[p].score \in Scores /\ proc'[p].score < 70) =>
              /\ UNCHANGED <<systemStats, threats, deepfakeAnalyses,
                             honeypotLogs, alerts, currentThreatId,
                             currentDeepfakeId, currentHoneypotId,
                             currentAlertId, wsVars, sent, emails>>
              /\ phishingAnalyses' \in
                    {phishingAnalyses,
                     Append(phishingAnalyses,
                            [id |-> currentPhishingId,
                             score |-> proc'[p].score, by |-> p,
                             analyzedAt |-> now])}
              /\ Done(p)' =>
                    /\ proc'[p].res = "200"
                    /\ Cardinality(RecordsBy(phishingAnalyses', p)) = 1
      ]_vars

\* C9 witness: a submission with score 65 that has ended, its analysis
\* stored, while the store already held a Threat and an Alert of another.
C9_Witness ==
    \E p \in Procs :
        /\ proc[p].kind = "phishing" /\ proc[p].score = 65 /\ Done(p)
        /\ \E i \in RecordsBy(phishingAnalyses, p) :
              phishingAnalyses[i].score = 65
        /\ ~HasThreat(p) /\ ~HasAlert(p) /\ RecordsBy(sent, p) = {}
        /\ threats # <<>> /\ alerts # <<>>

\* C10: markAlertRead with an id that is not in the store answers NotFound
\* and changes no alert.
C10_NotFound ==
    [][\A p \in Procs :
          /\ (proc[p].kind = "idle" /\ proc'[p].kind = "markRead"
                /\ \A i \in DOMAIN alerts : alerts[i].id # proc'[p].arg)
                => alerts' = alerts
          /\ (proc[p].kind = "markRead" /\ ~Done(p) /\ Done(p)'
                /\ proc[p].arg >= currentAlertId)
                => proc'[p].res = "404"
      ]_vars

\* an alert with this id is in the store
AlertExists(id) == \E i \in DOMAIN alerts : alerts[i].id = id

\* C11: markAlertRead on an existing alert sets isRead and touches nothing
\* else; a call on an alert that an earlier call has already marked leaves
\* the whole store as it was and answers success like the first.
C11_MarkReadIdempotent ==
    [][\A p \in Procs :
          /\ (proc[p].kind = "idle" /\ proc'[p].kind = "markRead"
                /\ AlertExists(proc'[p].arg)) =>
                /\ UNCHANGED <<systemStats, threats, phishingAnalyses,
                               deepfakeAnalyses, honeypotLogs, idVars>>
                /\ \A i \in DOMAIN alerts :
                      alerts'[i] =
                          IF alerts[i].id = proc'[p].arg
                          THEN [alerts[i] EXCEPT !.isRead = TRUE]
                          ELSE alerts[i]
                /\ (\E i \in DOMAIN alerts :
                        alerts[i].id = proc'[p].arg /\ alerts[i].isRead)
                      => alerts' = alerts
          /\ (proc[p].kind = "markRead" /\ ~Done(p) /\ Done(p)'
                /\ AlertExists(proc[p].arg))
                => proc'[p].res = "200"
      ]_vars

\* C11 witness: two calls on the same existing id have both answered, and
\* the alert is read.
C11_Witness ==
    \E p, q \in Procs :
        /\ p # q
        /\ proc[p].kind = "markRead" /\ proc[q].kind = "markRead"
        /\ proc[p].arg = proc[q].arg /\ AlertExists(proc[p].arg)
        /\ Done(p) /\ Done(q) /\ proc[p].res = "200" /\ proc[q].res = "200"
        /\ \A i \in DOMAIN alerts :
              alerts[i].id = proc[p].arg => alerts[i].isRead

\* C12: an Alert that is read stays read, and no other field of a stored
\* Alert ever changes; alerts are never removed.
C12_IsReadMonotone ==
    [][/\ Len(alerts') >= Len(alerts)
       /\ \A i \in DOMAIN alerts :
             /\ alerts[i].isRead => alerts'[i].isRead
             /\ [alerts'[i] EXCEPT !.isRead = alerts[i].isRead] = alerts[i]
      ]_vars

\* C12 witness: read-all has answered, an alert from before it is read, and
\* a submission has since stored a new, unread alert.
C12_Witness ==
    /\ \E p \in Procs : proc[p].kind = "markAll" /\ Done(p)
    /\ \E i \in DOMAIN alerts : alerts[i].isRead /\ alerts[i].by = NoProc
    /\ \E i \in DOMAIN alerts : ~alerts[i].isRead /\ alerts[i].by \in Procs

\* ids of a record collection are strictly increasing in insertion order
IdsIncreasing(seq) ==
    \A i, j \in DOMAIN seq : i < j => seq[i].id < seq[j].id

\* C13: within each record type the ids are unique and strictly increasing
\* in insertion order, and the type's counter is above all of them.
C13_IdsUniqueIncreasing ==
    /\ IdsIncreasing(threats)
    /\ IdsIncreasing(phishingAnalyses)
    /\ IdsIncreasing(deepfakeAnalyses)
    /\ IdsIncreasing(honeypotLogs)
    /\ IdsIncreasing(alerts)
    /\ \A i \in DOMAIN threats : threats[i].id < currentThreatId
    /\ \A i \in DOMAIN phishingAnalyses :
          phishingAnalyses[i].id < currentPhishingId
    /\ \A i \in DOMAIN deepfakeAnalyses :
          deepfakeAnalyses[i].id < currentDeepfakeId
    /\ \A i \in DOMAIN honeypotLogs : honeypotLogs[i].id < currentHoneypotId
    /\ \A i \in DOMAIN alerts : alerts[i].id < currentAlertId

\* C13 witness: two submissions ran interleaved, the one that started
\* second inserting its Threat first, and both Threats and Alerts are stored.
C13_Witness ==
    /\ Len(threats) = 2 /\ Len(alerts) = 2
    /\ threats[1].by = 2 /\ threats[2].by = 1
    /\ alerts[1].by = 1 /\ alerts[2].by = 2

\* the analyses an Alert of this category refers to
AnalysesOf(category) ==
    IF category = "email" THEN phishingAnalyses
    ELSE IF category = "media" THEN deepfakeAnalyses
    ELSE <<>>

\* C14: when an Alert is inserted, the Threat and the analysis its metadata
\* names are already in the store, and are those of its own submission.
C14_NoDanglingReference ==
    [][Len(alerts') > Len(alerts) =>
          LET a == alerts'[Len(alerts')]
          IN  /\ a.threatId # NoId =>
                    \E i \in DOMAIN threats :
                        /\ threats[i].id = a.threatId
                        /\ threats[i].by = a.by
              /\ a.analysisId # NoId =>
                    \E i \in DOMAIN AnalysesOf(a.category) :
                        /\ AnalysesOf(a.category)[i].id = a.analysisId
                        /\ AnalysesOf(a.category)[i].by = a.by
      ]_vars

\* C14 witness: an email Alert and a media Alert are stored, each naming a
\* Threat and an analysis.
C14_Witness ==
    /\ \E i \in DOMAIN alerts :
          /\ alerts[i].category = "email"
          /\ alerts[i].threatId # NoId /\ alerts[i].analysisId # NoId
    /\ \E i \in DOMAIN alerts :
          /\ alerts[i].category = "media"
          /\ alerts[i].threatId # NoId /\ alerts[i].analysisId # NoId

\* the moves a socket's readyState can make
Lifecycle ==
    {<<"NONE", "OPEN">>, <<"OPEN", "CLOSING">>, <<"CLOSING", "CLOSED">>}

\* C15: a subscriber only moves forward through its states; it enters the
\* active set when it connects and at no other time; once closed it is out
\* of the set; and every broadcast sends only to sockets that are in the
\* set and Open when it is called.
C15_SubscriberLifecycle ==
    [][\A c \in Clients :
          /\ readyState'[c] # readyState[c]
                => <<readyState[c], readyState'[c]>> \in Lifecycle
          /\ (InSet(c)' /\ ~InSet(c)) => readyState[c] = "NONE"
          /\ readyState'[c] = "CLOSED" => ~InSet(c)'
          /\ inbox'[c] # inbox[c]
                => (readyState[c] = "OPEN" /\ InSet(c))
          /\ Len(sent') > Len(sent) =>
                (c \in Attempted(sent'[Len(sent')])
                    => (readyState[c] = "OPEN" /\ InSet(c)))
      ]_vars

\* C15 witness: a subscriber received a message, closed and left the set,
\* and a later broadcast reached another subscriber without trying it.
C15_Witness ==
    \E c, d \in Clients :
        /\ readyState[c] = "CLOSED" /\ ~InSet(c) /\ inbox[c] # <<>>
        /\ \E k \in DOMAIN sent :
              /\ k > inbox[c][Len(inbox[c])]
              /\ d \in sent[k].delivered
              /\ c \notin Attempted(sent[k])

\* the messages a socket was sent, as a set
Received(c) == {inbox[c][i] : i \in DOMAIN inbox[c]}

\* C16: each subscriber is sent its messages in the order in which
\* broadcast was called, whichever producers interleave.
C16_FifoPerSubscriber ==
    \A c \in Clients :
        \A i, j \in DOMAIN inbox[c] :
            i < j => inbox[c][i] < inbox[c][j]

\* C16 witness: a subscriber that is still Open was sent a stats_update, a
\* message of a handler and the next stats_update, in that order.
C16_Witness ==
    \E c \in Clients :
        /\ readyState[c] = "OPEN" /\ Len(inbox[c]) = 3
        /\ sent[inbox[c][1]].type = "stats_update"
        /\ sent[inbox[c][2]].type \in {"new_alert", "honeypot_attack"}
        /\ sent[inbox[c][3]].type = "stats_update"

\* C17: a broadcast reaches a subscriber at most once, and only a
\* subscriber that was connected and Open when it was issued: nothing is
\* replayed to one that connects later.
C17_AtMostOnceNoReplay ==
    \A c \in Clients :
        /\ readyState[c] = "NONE" => inbox[c] = <<>>
        /\ Received(c) \subseteq DOMAIN sent
        /\ Cardinality(Received(c)) = Len(inbox[c])
        /\ \A k \in DOMAIN sent :
              k \in Received(c) <=> c \in sent[k].delivered

\* C17 witness: the first broadcast reached a subscriber before the other
\* one connected; the second reached both; the late one holds only the
\* second.
C17_Witness ==
    \E c, d \in Clients :
        /\ Len(sent) = 2
        /\ sent[1].delivered = {d} /\ c \notin sent[1].open
        /\ readyState[c] = "OPEN"
        /\ inbox[d] = <<1, 2>> /\ inbox[c] = <<2>>

\* C18: a tick reads the store's SystemStats and broadcasts them as a
\* stats_update; whether or not a send throws, the callback ends with the
\* timer armed for its next tick and nothing else disturbed.
C18_PublisherKeepsRunning ==
    [][/\ statsTimer'.pc \in {"armed", "read"}
       /\ (statsTimer.pc = "armed" /\ statsTimer'.pc = "read")
             => statsTimer'.stats = systemStats
       /\ (statsTimer.pc = "read" /\ statsTimer' # statsTimer) =>
             /\ statsTimer'.pc = "armed"
             /\ Len(sent') = Len(sent) + 1
             /\ sent'[Len(sent')].type = "stats_update"
             /\ sent'[Len(sent')].stats = statsTimer.stats
             /\ sent'[Len(sent')].failed = NoClient
                   => sent'[Len(sent')].delivered
                        = {c \in Clients : InSet(c) /\ readyState[c] = "OPEN"}
             /\ UNCHANGED <<systemStats, recVars, idVars, proc, wsVars>>
      ]_vars

\* C18 witness: a tick whose send threw, then a handler's stats update,
\* then the next tick, which delivered the new stats; the timer is armed.
C18_Witness ==
    /\ statsTimer.pc = "armed"
    /\ \E k, m \in DOMAIN sent :
          /\ k < m
          /\ sent[k].type = "stats_update" /\ sent[k].failed # NoClient
          /\ sent[m].type = "stats_update" /\ sent[m].delivered # {}
          /\ sent[m].stats # sent[k].stats
          /\ sent[m].stats = systemStats

\* C19: a phishing submission whose content is empty, missing or not a
\* string is answered with the invalid-input error (400) at once, and the
\* store, the counters and the subscribers' messages are left unchanged.
C19_InvalidInputRejected ==
    [][\A p \in Procs :
          (proc[p].kind = "idle" /\ proc'[p].kind = "phishing"
              /\ proc'[p].content \in {"empty", "nonstring"}) =>
              /\ Done(p)'
              /\ proc'[p].res = "400"
              /\ UNCHANGED <<systemStats, recVars, idVars, outVars>>
      ]_vars

\* C20: a list answer is ordered by creation timestamp descending, and of
\* two records with the same timestamp the one with the larger id is first.
C20_ListNewestFirst ==
    \A k \in DOMAIN listed.rows :
        k + 1 \in DOMAIN listed.rows =>
            \/ listed.rows[k].at > listed.rows[k + 1].at
            \/ /\ listed.rows[k].at = listed.rows[k + 1].at
               /\ listed.rows[k].id > listed.rows[k + 1].id
\* C21  Round trip of the store: every record that a list answer returns has,
\* in every field, the value that was supplied when it was inserted, the
\* empty text of an empty payload included, beside the id it was given.
C21_RoundTrip ==
    listed.of = "honeypotLogs" =>
        \A k \in DOMAIN listed.rows :
            LET r == listed.rows[k].rec
                given == proc[r.by]
            IN  /\ r.id = given.logId
                /\ r.service = given.service
                /\ r.severity = given.severity
                /\ r.payload = given.payload
                /\ r.location = given.location

\* C22  A collaborator that fails does not abort a honeypot submission: when
\* the geolocation lookup gives null or sendAttackAlert gives false, the
\* attack is stored all the same (with location null), honeypotHits is
\* raised by one for it, and logAttack ends without an error.  Submissions
\* are handled one after the other here, so that each one's increment shows.
C22_CollaboratorFailureIsolated ==
    /\ \A p \in Procs :
          proc[p].kind = "honeypot" =>
            /\ proc[p].pc # "geo" =>
                  \E i \in DOMAIN honeypotLogs :
                     /\ honeypotLogs[i].by = p
                     /\ honeypotLogs[i].location = proc[p].location
            /\ Done(p) => proc[p].res = "ok" /\ proc[p].updated
    /\ systemStats.honeypotHits =
          InitHoneypotHits(impl)
          + Cardinality({q \in Procs : proc[q].kind = "honeypot"
                                         /\ proc[q].updated})

\* a finished submission whose lookup gave null and whose e-mail failed
C22_Witness ==
    \E p \in Procs :
       /\ LogAttackFinished(p)
       /\ proc[p].location = "null"
       /\ proc[p].mailed = "false"
       /\ proc[p].updated
       /\ \E i \in DOMAIN honeypotLogs :
             honeypotLogs[i].by = p /\ honeypotLogs[i].location = "null"

\* C23  Whatever the interleaving of concurrent submissions and honeypot
\* attacks, once all of them have finished (each with success)
\* phishingBlocked has grown by the number of escalated phishing
\* submissions, deepfakesDetected by the number of escalated deepfake
\* submissions, and activeThreats by the number of Threats created.  Stated
\* for the modular server, whose handlers make these updates.
ThreatsOfType(type) == {i \in DOMAIN threats : threats[i].type = type}

C23_CountersExact ==
    (/\ impl = "modular"
     /\ Quiescent
     /\ \A p \in Procs : Done(p) => proc[p].res \in {"200", "ok"})
    =>
       /\ systemStats.phishingBlocked
             = InitPhishingBlocked + Cardinality(ThreatsOfType("phishing"))
       /\ systemStats.deepfakesDetected
             = InitDeepfakesDetected + Cardinality(ThreatsOfType("deepfake"))
       /\ systemStats.activeThreats = InitActiveThreats + Len(threats)

\* C24  Escalation is atomic: in no state is there the Threat of an escalated
\* phishing or deepfake submission without its Alert, or its Alert without
\* the stats increment of that submission.
C24_EscalationAtomic ==
    \A p \in Procs :
        proc[p].kind \in {"phishing", "deepfake"} =>
            /\ HasThreat(p) => HasAlert(p)
            /\ HasAlert(p) => proc[p].updated

\* C25  A slow collaborator blocks nothing: every generated honeypot attack is
\* eventually stored and counted, also when the geolocation lookup or the
\* sending of the e-mail never completes.
C25_EventuallyStoredAndCounted ==
    \A p \in Procs :
        (proc[p].kind = "honeypot")
        ~> (/\ \E i \in DOMAIN honeypotLogs : honeypotLogs[i].by = p
            /\ proc[p].updated)

\* C26  Every stored honeypot attack is afterwards broadcast as
\* honeypot_attack, whether it escalates or not: an execution of logAttack
\* that has run to its end has called broadcast with a honeypot_attack
\* message, and that message went to every subscriber that was Open.
C26_AttackBroadcast ==
    \A p \in Procs :
        LogAttackFinished(p) =>
            \E i \in DOMAIN sent :
               /\ sent[i].by = p
               /\ sent[i].type = "honeypot_attack"
               /\ sent[i].failed = NoClient => sent[i].delivered = sent[i].open

C28_StartStopIdempotent ==
    /\ manager.isRunning => manager.intervals = ServiceTimers
    /\ ~manager.isRunning => manager.intervals = 0

\* start() was called on a running manager and stop() on a stopped one
C28_Witness ==
    /\ \E i \in DOMAIN manager.calls :
          manager.calls[i].op = "start" /\ manager.calls[i].wasRunning
    /\ \E i \in DOMAIN manager.calls :
          manager.calls[i].op = "stop" /\ ~manager.calls[i].wasRunning
    /\ ~manager.isRunning
    /\ manager.intervals = 0

\* C29  Once stop() has returned, and until start() is called again, no log
\* is inserted, honeypotHits keeps its value, and no 'attack' is emitted or
\* broadcast, also when a simulation was in flight at the time of stop().
C29_QuietAfterStop ==
    [][(~manager.isRunning /\ ~manager'.isRunning) =>
          /\ honeypotLogs' = honeypotLogs
          /\ systemStats'.honeypotHits = systemStats.honeypotHits
          /\ sent' = sent
          /\ \A p \in Procs :
                proc[p].pc = "statsWritten" => proc'[p].pc = "statsWritten"
      ]_vars

\* C30  After the hook's cleanup has run the client opens no further
\* WebSocket and no reconnect timer is pending; while the hook is mounted at
\* most one reconnect timer is pending.
C30_NoReconnectAfterUnmount ==
    /\ hook.mounted = "unmounted" =>
          /\ hook.opened = hook.openedAtCleanup
          /\ hook.timers = 0
    /\ hook.mounted = "mounted" => hook.timers <= 1

====
